---- MODULE Spec2Model ----
(***************************************************************************)
(* A model of sample-plugin/scripts/format-code.py: the CodeFormatter      *)
(* class (the language registry, format_file, the per-language formatters, *)
(* format_directory) and main().                                           *)
(*                                                                         *)
(* File contents are sequences of tokens; a token is a TLA+ string holding *)
(* the text it stands for (" ", "\n", ";", "console.log(a)", ...).  The    *)
(* formatters are computed on these sequences the way the Python code      *)
(* computes them on the text: substring tests, split, strip, replace, the  *)
(* regular expressions and the length of a line in characters.             *)
(***************************************************************************)
EXTENDS Integers, Sequences, FiniteSets, TLC

(***************************************************************************)
(* Bounds of the model.                                                    *)
(***************************************************************************)
\* The longest file content, in tokens, that Init enumerates.
MaxLen == 2
\* How many sessions are run one after the other on the same files.
MaxRuns == 2

(***************************************************************************)
(* Tokens.                                                                 *)
(***************************************************************************)
SP == " "
TAB == "\t"
NL == "\n"
\* A run of 99 (119) letters "w": with two more characters the line passes
\* the 100 (120) character ceiling.
W99 == "w*99"
W119 == "w*119"
JsLog == "console.log(a)"
TsAny == ": any"
PyPrint == "print("
PyImport == "import os"
GoPrintln == "fmt.Println"
GoError == "error"
GoErrCheck == "if err != nil {"
FourSpaces == "    "
JavaPrintln == "System.out.println"
RustUnwrap == ".unwrap()"
RustPrintln == "println!"
RustTest == "#[test]"
RubyPuts == "puts"
RubyPrint == "print"
Shebang == "#!/bin/bash"
SetE == "set -e"
ShVar == "$a"
DQuote == "\""
JNull == "null"
JKeyA == "\"a\":"
JKeyB == "\"b\":"

\* len(token): the number of characters of the text the token stands for.
Width(t) == IF t = W99 THEN 99 ELSE IF t = W119 THEN 119 ELSE Len(t)

\* Tokens whose first character is a word character (\w of the re module).
WordStart == {"x", W99, W119, JsLog, PyPrint, PyImport, RubyPuts, RubyPrint}

\* Characters str.strip(), str.lstrip() and str.rstrip() remove, and \s.
IsSpace(t) == t \in {SP, TAB, NL}

(***************************************************************************)
(* str operations on token sequences.                                      *)
(***************************************************************************)
\* len(s)
StrLen(s) ==
  LET f[i \in 0..Len(s)] == IF i = 0 THEN 0 ELSE f[i - 1] + Width(s[i])
  IN f[Len(s)]

\* `tok in s' for a one-token needle
Contains(s, tok) == \E i \in 1..Len(s) : s[i] = tok

\* `pat in s' for a needle of several tokens
ContainsSeq(s, pat) ==
  \E i \in 1..(Len(s) - Len(pat) + 1) : SubSeq(s, i, i + Len(pat) - 1) = pat

\* the number of leading whitespace tokens: len(s) - len(s.lstrip())
LeadingSpace(s) ==
  Cardinality({i \in 1..Len(s) : \A j \in 1..i : IsSpace(s[j])})

\* the number of trailing whitespace tokens
TrailingSpace(s) ==
  Cardinality({i \in 1..Len(s) : \A j \in i..Len(s) : IsSpace(s[j])})

\* s.lstrip(), s.rstrip(), s.strip()
LStrip(s) == SubSeq(s, LeadingSpace(s) + 1, Len(s))
RStrip(s) == SubSeq(s, 1, Len(s) - TrailingSpace(s))
Strip(s) == LStrip(RStrip(s))

\* s.split('\n'): the lines of s, at least one
RECURSIVE Split(_)
Split(s) ==
  IF \A i \in 1..Len(s) : s[i] # NL THEN <<s>>
  ELSE LET k == CHOOSE i \in 1..Len(s) :
                  s[i] = NL /\ \A j \in 1..(i - 1) : s[j] # NL
       IN <<SubSeq(s, 1, k - 1)>> \o Split(SubSeq(s, k + 1, Len(s)))

\* '\n'.join(lines)
RECURSIVE Join(_)
Join(lines) ==
  IF Len(lines) = 0 THEN <<>>
  ELSE IF Len(lines) = 1 THEN lines[1]
  ELSE lines[1] \o <<NL>> \o Join(Tail(lines))

\* s.replace(tok, rep): every token tok replaced by the tokens rep
RECURSIVE Replace(_, _, _)
Replace(s, tok, rep) ==
  IF Len(s) = 0 THEN <<>>
  ELSE (IF Head(s) = tok THEN rep ELSE <<Head(s)>>) \o Replace(Tail(s), tok, rep)

\* n spaces: ' ' * n
RECURSIVE Spaces(_)
Spaces(n) == IF n <= 0 THEN <<>> ELSE <<SP>> \o Spaces(n - 1)

\* what a loop over the lines appends: items[i] for the lines i with keep[i],
\* in line order
Pick(keep, items) ==
  LET f[i \in 0..Len(items)] ==
        IF i = 0 THEN <<>>
        ELSE IF keep[i] THEN Append(f[i - 1], items[i]) ELSE f[i - 1]
  IN f[Len(items)]

(***************************************************************************)
(* Issues.  The code's issues are message strings; here an issue is the    *)
(* rule that produced it with the line and the number its message holds.   *)
(***************************************************************************)
Issue(kind, line, n) == [kind |-> kind, line |-> line, n |-> n]

(***************************************************************************)
(* The formatters: (content, fix) -> [content, issues].  fix is self.fix.  *)
(***************************************************************************)
Result(content, issues) == [content |-> content, issues |-> issues]

\* RemoveConsoleLog removing nothing.
KeepConsoleLog(s) == s

\* re.sub(r'console\.log\([^)]*\);?\n?', '', s): every call is removed with
\* the ";" and then the newline that may follow it.
RECURSIVE RemoveConsoleLog(_)
RemoveConsoleLog(s) ==
  IF Len(s) = 0 THEN <<>>
  ELSE IF Head(s) = JsLog
       THEN LET a == Tail(s)
                b == IF Len(a) > 0 /\ Head(a) = ";" THEN Tail(a) ELSE a
                c == IF Len(b) > 0 /\ Head(b) = NL THEN Tail(b) ELSE b
            IN RemoveConsoleLog(c)
       ELSE <<Head(s)>> \o RemoveConsoleLog(Tail(s))

\* line and not line.startswith(' ' * (len(line) - len(line.lstrip()))),
\* and '\t' in line
JsTabLine(line) ==
  /\ Len(line) > 0
  /\ \E j \in 1..LeadingSpace(line) : line[j] # SP
  /\ Contains(line, TAB)

\* not content.strip().endswith(';') and content.strip()
\* and not content.strip().endswith('}')
JsMissingSemicolon(content) ==
  LET c == Strip(content)
  IN Len(c) > 0 /\ c[Len(c)] # ";" /\ c[Len(c)] # "}"

JsMaxLine == 100

format_javascript(content, fix) ==
  LET hasLog == Contains(content, JsLog)
      i1 == IF hasLog THEN <<Issue("console_log", 0, 0)>> ELSE <<>>
      c1 == IF hasLog /\ fix THEN RemoveConsoleLog(content) ELSE content
      lines0 == Split(c1)
      tabbed == [i \in DOMAIN lines0 |-> JsTabLine(lines0[i])]
      i2 == Pick(tabbed, [i \in DOMAIN lines0 |-> Issue("tabs", i, 0)])
      lines == IF fix
               THEN [i \in DOMAIN lines0 |->
                       IF tabbed[i] THEN Replace(lines0[i], TAB, <<SP, SP>>)
                       ELSE lines0[i]]
               ELSE lines0
      c2 == IF fix THEN Join(lines) ELSE c1
      semi == JsMissingSemicolon(content)
      i3 == IF semi THEN <<Issue("semicolon", 0, 0)>> ELSE <<>>
      c3 == IF semi /\ fix THEN RStrip(c2) \o <<";", NL>> ELSE c2
      i4 == Pick([i \in DOMAIN lines |-> StrLen(lines[i]) > JsMaxLine],
                 [i \in DOMAIN lines |-> Issue("line_length", i, StrLen(lines[i]))])
  IN Result(c3, i1 \o i2 \o i3 \o i4)

\* re.search(r':\s*any\b', content): ": any" not followed by a word character
TsUsesAny(content) ==
  \E i \in 1..Len(content) :
    /\ content[i] = TsAny
    /\ (i = Len(content) \/ content[i + 1] \notin WordStart)

format_typescript(content, fix) ==
  LET r == format_javascript(content, fix)
  IN Result(r.content,
            r.issues \o (IF TsUsesAny(content) THEN <<Issue("any_type", 0, 0)>>
                         ELSE <<>>))

PyMaxLine == 120

\* line.endswith(' ') or line.endswith('\t')
PyTrailing(line) == Len(line) > 0 /\ line[Len(line)] \in {SP, TAB}

\* [i for i, line in enumerate(lines)
\*    if line.startswith('import ') or line.startswith('from ')]
PyImportLines(lines) ==
  Pick([i \in DOMAIN lines |-> Len(lines[i]) > 0 /\ lines[i][1] = PyImport],
       [i \in DOMAIN lines |-> i])

\* import_lines and not all(import_lines[i] < import_lines[i+1] ...)
PyImportsUngrouped(lines) ==
  LET il == PyImportLines(lines)
  IN Len(il) > 0 /\ ~ \A i \in 1..(Len(il) - 1) : il[i] < il[i + 1]

format_python(content, fix) ==
  LET lines0 == Split(content)
      i1 == Pick([i \in DOMAIN lines0 |-> StrLen(lines0[i]) > PyMaxLine],
                 [i \in DOMAIN lines0 |-> Issue("line_length", i, StrLen(lines0[i]))])
      trailing == [i \in DOMAIN lines0 |-> PyTrailing(lines0[i])]
      i2 == Pick(trailing, [i \in DOMAIN lines0 |-> Issue("trailing_ws", i, 0)])
      lines1 == IF fix
                THEN [i \in DOMAIN lines0 |->
                        IF trailing[i] THEN RStrip(lines0[i]) ELSE lines0[i]]
                ELSE lines0
      i3 == IF PyImportsUngrouped(lines1) THEN <<Issue("imports", 0, 0)>> ELSE <<>>
      i4 == IF Contains(content, PyPrint) THEN <<Issue("print", 0, 0)>> ELSE <<>>
      tabbed == [i \in DOMAIN lines1 |-> Contains(lines1[i], TAB)]
      i5 == Pick(tabbed, [i \in DOMAIN lines1 |-> Issue("tabs", i, 0)])
      lines2 == IF fix
                THEN [i \in DOMAIN lines1 |->
                        IF tabbed[i] THEN Replace(lines1[i], TAB, Spaces(4))
                        ELSE lines1[i]]
                ELSE lines1
  IN Result(IF fix THEN Join(lines2) ELSE content, i1 \o i2 \o i3 \o i4 \o i5)

format_go(content, fix) ==
  LET i1 == IF Contains(content, GoPrintln)
            THEN <<Issue("println", 0, 0)>> ELSE <<>>
      i2 == IF ~Contains(content, GoErrCheck) /\ Contains(content, GoError)
            THEN <<Issue("unhandled_errors", 0, 0)>> ELSE <<>>
      i3 == IF Contains(content, FourSpaces) \/ ContainsSeq(content, Spaces(4))
            THEN <<Issue("spaces", 0, 0)>> ELSE <<>>
  IN Result(content, i1 \o i2 \o i3)

\* re.search(r'\n\s*{', content)
JavaBraceOnNewLine(content) ==
  \E i, j \in 1..Len(content) :
    /\ i < j
    /\ content[i] = NL
    /\ content[j] = "{"
    /\ \A k \in (i + 1)..(j - 1) : IsSpace(content[k])

format_java(content, fix) ==
  LET i1 == IF Contains(content, JavaPrintln)
            THEN <<Issue("println", 0, 0)>> ELSE <<>>
      i2 == IF JavaBraceOnNewLine(content)
            THEN <<Issue("brace_style", 0, 0)>> ELSE <<>>
  IN Result(content, i1 \o i2)

format_rust(content, fix) ==
  LET i1 == IF Contains(content, RustUnwrap)
            THEN <<Issue("unwrap", 0, 0)>> ELSE <<>>
      i2 == IF Contains(content, RustPrintln) /\ ~Contains(content, RustTest)
            THEN <<Issue("println", 0, 0)>> ELSE <<>>
  IN Result(content, i1 \o i2)

RbMaxLine == 120

format_ruby(content, fix) ==
  LET i1 == IF \/ ContainsSeq(content, <<RubyPuts, SP>>)
               \/ ContainsSeq(content, <<RubyPrint, SP>>)
            THEN <<Issue("puts", 0, 0)>> ELSE <<>>
      lines == Split(content)
      i2 == Pick([i \in DOMAIN lines |-> StrLen(lines[i]) > RbMaxLine],
                 [i \in DOMAIN lines |-> Issue("line_length", i, 0)])
  IN Result(content, i1 \o i2)

\* re.search(r'\$[A-Za-z_][A-Za-z0-9_]*(?!["\047])', content): a variable
\* whose name is not followed at once by a quote.  The one-letter "$a" is the
\* only name the expression cannot shorten to make room before the quote.
ShUnquoted(content) ==
  \E i \in 1..Len(content) :
    /\ content[i] = ShVar
    /\ (i = Len(content) \/ content[i + 1] # DQuote)

\* format_shell adding the shebang line without recording the issue.
format_shell_silent(content, fix) ==
  LET noShebang == ~(Len(content) > 0 /\ content[1] = Shebang)
      c1 == IF noShebang /\ fix THEN <<Shebang, NL>> \o content ELSE content
      i2 == IF ~Contains(content, SetE) THEN <<Issue("set_e", 0, 0)>> ELSE <<>>
      i3 == IF ShUnquoted(content) THEN <<Issue("unquoted", 0, 0)>> ELSE <<>>
  IN Result(c1, i2 \o i3)

format_shell(content, fix) ==
  LET noShebang == ~(Len(content) > 0 /\ content[1] = Shebang)
      i1 == IF noShebang THEN <<Issue("shebang", 0, 0)>> ELSE <<>>
      c1 == IF noShebang /\ fix THEN <<Shebang, NL>> \o content ELSE content
      i2 == IF ~Contains(content, SetE) THEN <<Issue("set_e", 0, 0)>> ELSE <<>>
      i3 == IF ShUnquoted(content) THEN <<Issue("unquoted", 0, 0)>> ELSE <<>>
  IN Result(c1, i1 \o i2 \o i3)

format_yaml(content, fix) ==
  LET lines == Split(content)
      i1 == Pick([i \in DOMAIN lines |-> Contains(lines[i], TAB)],
                 [i \in DOMAIN lines |-> Issue("tabs", i, 0)])
      i2 == Pick([i \in DOMAIN lines |->
                    Len(lines[i]) > 0 /\ lines[i][Len(lines[i])] = SP],
                 [i \in DOMAIN lines |-> Issue("trailing_ws", i, 0)])
  IN Result(content, i1 \o i2)

(***************************************************************************)
(* json.loads and json.dumps(data, indent=2, sort_keys=True) on the JSON   *)
(* texts the tokens null, {, }, "," and the keys "a": and "b": can form.   *)
(* A value is null or an object: a function from its keys to values.       *)
(***************************************************************************)
JKeys == <<JKeyA, JKeyB>>
JNullValue == [t |-> "null", m |-> <<>>]
JObject(m) == [t |-> "obj", m |-> m]
JFail == [ok |-> FALSE, v |-> JNullValue, nxt |-> 0]
JOk(v, nxt) == [ok |-> TRUE, v |-> v, nxt |-> nxt]

\* dict[key] = v: a repeated key keeps the last value
JPut(m, key, v) ==
  [k \in (DOMAIN m) \cup {key} |-> IF k = key THEN v ELSE m[k]]

RECURSIVE JParseValue(_, _), JParseMembers(_, _, _)
\* the value that starts at token i of t (whitespace already skipped)
JParseValue(t, i) ==
  IF i > Len(t) THEN JFail
  ELSE IF t[i] = JNull THEN JOk(JNullValue, i + 1)
  ELSE IF t[i] = "{"
       THEN IF i + 1 <= Len(t) /\ t[i + 1] = "}"
            THEN JOk(JObject(<<>>), i + 2)
            ELSE JParseMembers(t, i + 1, <<>>)
  ELSE JFail

\* the members key value , key value ... } from token i on, m holding those read
JParseMembers(t, i, m) ==
  IF i > Len(t) \/ t[i] \notin {JKeyA, JKeyB} THEN JFail
  ELSE LET r == JParseValue(t, i + 1)
       IN IF ~r.ok \/ r.nxt > Len(t) THEN JFail
          ELSE IF t[r.nxt] = "," THEN JParseMembers(t, r.nxt + 1, JPut(m, t[i], r.v))
          ELSE IF t[r.nxt] = "}" THEN JOk(JObject(JPut(m, t[i], r.v)), r.nxt + 1)
          ELSE JFail

\* json.loads(content): ok is FALSE where it raises JSONDecodeError
json_loads(content) ==
  LET t == SelectSeq(content, LAMBDA c : ~IsSpace(c))
      r == JParseValue(t, 1)
  IN IF r.ok /\ r.nxt = Len(t) + 1 THEN r ELSE JFail

RECURSIVE json_dumps(_, _)
\* json.dumps(v, indent=2, sort_keys=True) at nesting depth level
json_dumps(v, level) ==
  IF v.t = "null" THEN <<JNull>>
  ELSE IF DOMAIN v.m = {} THEN <<"{", "}">>
  ELSE LET keys == SelectSeq(JKeys, LAMBDA k : k \in DOMAIN v.m)
           item(k) == <<NL>> \o Spaces(2 * (level + 1)) \o <<k, SP>>
                        \o json_dumps(v.m[k], level + 1)
           f[i \in 0..Len(keys)] ==
             IF i = 0 THEN <<>>
             ELSE f[i - 1] \o (IF i > 1 THEN <<",">> ELSE <<>>) \o item(keys[i])
       IN <<"{">> \o f[Len(keys)] \o <<NL>> \o Spaces(2 * level) \o <<"}">>

format_json(content, fix) ==
  LET r == json_loads(content)
      pretty == json_dumps(r.v, 0)
  IN IF ~r.ok THEN Result(content, <<Issue("invalid_json", 0, 0)>>)
     ELSE IF content # pretty
          THEN Result(IF fix THEN pretty \o <<NL>> ELSE content,
                      <<Issue("json_format", 0, 0)>>)
          ELSE Result(content, <<>>)

\* not line.strip()
MdBlank(line) == Len(Strip(line)) = 0

\* line.startswith('#') and not line.startswith('# ')
\* and not re.match(r'^#{1,6} ', line)
MdBadHeading(line) ==
  LET k == Cardinality({i \in 1..Len(line) : \A j \in 1..i : line[j] = "#"})
  IN /\ k >= 1
     /\ ~(Len(line) >= 2 /\ line[2] = SP)
     /\ ~(k <= 6 /\ Len(line) > k /\ line[k + 1] = SP)

format_markdown(content, fix) ==
  LET lines == Split(content)
      \* blank_count after line i
      bc[i \in 0..Len(lines)] ==
        IF i = 0 THEN 0 ELSE IF MdBlank(lines[i]) THEN bc[i - 1] + 1 ELSE 0
      i1 == Pick([i \in DOMAIN lines |-> bc[i] > 1],
                 [i \in DOMAIN lines |-> Issue("blank_lines", i, 0)])
      i2 == Pick([i \in DOMAIN lines |-> MdBadHeading(lines[i])],
                 [i \in DOMAIN lines |-> Issue("heading", i, 0)])
  IN Result(content, i1 \o i2)

(***************************************************************************)
(* The language registry: self.language_config.                            *)
(***************************************************************************)
Registered ==
  {".js", ".jsx", ".ts", ".tsx", ".py", ".go", ".java", ".rs", ".rb", ".sh",
   ".yml", ".yaml", ".json", ".md"}

\* self.language_config[ext](content, file_path)
language_config(ext, content, fix) ==
  CASE ext \in {".js", ".jsx"} -> format_javascript(content, fix)
    [] ext \in {".ts", ".tsx"} -> format_typescript(content, fix)
    [] ext = ".py" -> format_python(content, fix)
    [] ext = ".go" -> format_go(content, fix)
    [] ext = ".java" -> format_java(content, fix)
    [] ext = ".rs" -> format_rust(content, fix)
    [] ext = ".rb" -> format_ruby(content, fix)
    [] ext = ".sh" -> format_shell(content, fix)
    [] ext \in {".yml", ".yaml"} -> format_yaml(content, fix)
    [] ext = ".json" -> format_json(content, fix)
    [] ext = ".md" -> format_markdown(content, fix)

\* The issues whose rule rewrites the content under self.fix.
FixableKinds(ext) ==
  CASE ext \in {".js", ".jsx", ".ts", ".tsx"} -> {"console_log", "tabs", "semicolon"}
    [] ext = ".py" -> {"trailing_ws", "tabs"}
    [] ext = ".sh" -> {"shebang"}
    [] ext = ".json" -> {"json_format"}
    [] OTHER -> {}

(***************************************************************************)
(* The file contents Init enumerates: per language, every sequence of at   *)
(* most MaxLen tokens over the tokens its rules look at.                   *)
(***************************************************************************)
Alphabet(ext) ==
  CASE ext \in {".js", ".jsx"} -> {"x", ";", "}", SP, TAB, NL, JsLog, W99}
    [] ext \in {".ts", ".tsx"} -> {"x", ";", TAB, NL, JsLog, TsAny}
    [] ext = ".py" -> {"x", SP, TAB, NL, PyPrint, PyImport, W119}
    [] ext = ".go" -> {"x", GoPrintln, GoError, GoErrCheck, FourSpaces}
    [] ext = ".java" -> {"x", JavaPrintln, NL, SP, "{"}
    [] ext = ".rs" -> {"x", RustUnwrap, RustPrintln, RustTest}
    [] ext = ".rb" -> {"x", SP, NL, RubyPuts, RubyPrint, W119}
    [] ext = ".sh" -> {"x", NL, Shebang, SetE, ShVar, DQuote}
    [] ext \in {".yml", ".yaml"} -> {"x", SP, TAB, NL}
    [] ext = ".json" -> {JNull, "{", "}", ",", JKeyA, JKeyB, SP, NL}
    [] ext = ".md" -> {"#", SP, NL, "x"}
    [] OTHER -> {"x"}

Texts(alphabet, n) == UNION {[1..k -> alphabet] : k \in 0..n}

\* JSON documents longer than MaxLen tokens: objects with one and two members,
\* compact and as json.dumps writes them, with and without a final newline.
JsonSamples ==
  LET one == <<"{", JKeyA, JNull, "}">>
      two == <<"{", JKeyB, JNull, ",", JKeyA, JNull, "}">>
      nested == <<"{", JKeyA, "{", JKeyB, JNull, "}", "}">>
      docs == {one, two, nested}
      pretty == {json_dumps(json_loads(d).v, 0) : d \in docs}
  IN docs \cup pretty \cup {d \o <<NL>> : d \in pretty} \cup {Tail(one)}

\* Longer contents that the rules of a language tell apart: a statement before
\* a console.log call, lines at the length ceiling, a script with its header.
Samples(ext) ==
  CASE ext \in {".js", ".jsx"} ->
         {<<"x", JsLog, ";">>, <<TAB, W99, ";">>, <<W99, "x", ";">>,
          <<"x", ";", NL, JsLog, ";">>}
    [] ext \in {".ts", ".tsx"} -> {<<"x", JsLog, ";">>, <<JsLog, ";", TsAny>>}
    [] ext = ".py" ->
         {<<W119, "x", SP>>, <<W119, "x", "x">>, <<PyPrint, SP, NL, "x">>,
          <<"x", NL, "x", NL, "x", SP, NL>>}
    [] ext = ".rb" -> {<<W119, "x", "x">>}
    [] ext = ".sh" -> {<<Shebang, NL, SetE, NL, "x">>, <<"x", NL, ShVar, DQuote>>}
    [] ext = ".json" -> JsonSamples
    [] ext = ".md" -> {<<"#", "#", "x">>, <<"#", "#", SP, "x">>}
    [] OTHER -> {}

Contents(ext) == Texts(Alphabet(ext), MaxLen) \cup Samples(ext)

(***************************************************************************)
(* Paths are strings; pathlib's operations on them.                        *)
(***************************************************************************)
\* sub in s
StrContains(s, sub) ==
  \E i \in 1..(Len(s) - Len(sub) + 1) : SubSeq(s, i, i + Len(sub) - 1) = sub

\* s.startswith(pre), s.endswith(e)
StartsWith(s, pre) == Len(pre) <= Len(s) /\ SubSeq(s, 1, Len(pre)) = pre
EndsWith(s, e) == Len(e) <= Len(s) /\ SubSeq(s, Len(s) - Len(e) + 1, Len(s)) = e

\* s.rfind(ch) + 1: the last place of the character ch in s, 0 when absent
LastIndex(s, ch) ==
  LET at == {i \in 1..Len(s) : SubSeq(s, i, i) = ch}
  IN IF at = {} THEN 0 ELSE CHOOSE i \in at : \A j \in at : j <= i

\* path.name: what follows the last "/"
Name(path) == SubSeq(path, LastIndex(path, "/") + 1, Len(path))

\* path.suffix: the name from its last "." on, unless the "." is its first or
\* its last character
Suffix(path) ==
  LET name == Name(path)
      i == LastIndex(name, ".")
  IN IF 1 < i /\ i < Len(name) THEN SubSeq(name, i, Len(name)) ELSE ""

UpperCase == "ABCDEFGHIJKLMNOPQRSTUVWXYZ"
LowerCase == "abcdefghijklmnopqrstuvwxyz"

\* s.lower()
RECURSIVE Lower(_)
Lower(s) ==
  IF Len(s) = 0 THEN ""
  ELSE LET c == SubSeq(s, 1, 1)
           up == {i \in 1..26 : SubSeq(UpperCase, i, i) = c}
       IN (IF up = {} THEN c
           ELSE LET i == CHOOSE i \in up : TRUE IN SubSeq(LowerCase, i, i))
          \o Lower(SubSeq(s, 2, Len(s)))

\* The characters of the model's paths in code-point order.
CodePoints == "./0123456789ABCDEFGHIJKLMNOPQRSTUVWXYZ_abcdefghijklmnopqrstuvwxyz"
Ord(c) == CHOOSE i \in 1..Len(CodePoints) : SubSeq(CodePoints, i, i) = c

\* a < b for str
RECURSIVE StrLess(_, _)
StrLess(a, b) ==
  IF Len(b) = 0 THEN FALSE
  ELSE IF Len(a) = 0 THEN TRUE
  ELSE LET x == Ord(SubSeq(a, 1, 1))
           y == Ord(SubSeq(b, 1, 1))
       IN IF x # y THEN x < y
          ELSE StrLess(SubSeq(a, 2, Len(a)), SubSeq(b, 2, Len(b)))

\* path.parts
RECURSIVE Parts(_)
Parts(path) ==
  LET at == {i \in 1..Len(path) : SubSeq(path, i, i) = "/"}
  IN IF at = {} THEN <<path>>
     ELSE LET k == CHOOSE i \in at : \A j \in at : i <= j
          IN <<SubSeq(path, 1, k - 1)>> \o Parts(SubSeq(path, k + 1, Len(path)))

\* a < b for Path: the parts compared one by one
RECURSIVE PartsLess(_, _)
PartsLess(a, b) ==
  IF Len(b) = 0 THEN FALSE
  ELSE IF Len(a) = 0 THEN TRUE
  ELSE IF Head(a) # Head(b) THEN StrLess(Head(a), Head(b))
  ELSE PartsLess(Tail(a), Tail(b))

PathLess(a, b) == PartsLess(Parts(a), Parts(b))

\* Sorted leaving the files in the order they were collected.
Unsorted(files) == files

\* sorted(files)
RECURSIVE Sorted(_)
Sorted(files) ==
  IF Len(files) = 0 THEN <<>>
  ELSE LET k == CHOOSE i \in 1..Len(files) :
                  /\ \A j \in 1..Len(files) : ~PathLess(files[j], files[i])
                  /\ \A j \in 1..(i - 1) : PathLess(files[i], files[j])
           rest == SubSeq(files, 1, k - 1) \o SubSeq(files, k + 1, Len(files))
       IN <<files[k]>> \o Sorted(rest)

(***************************************************************************)
(* The state of one process of main(), of the files it works on, and what  *)
(* the runs so far did.                                                    *)
(***************************************************************************)
VARIABLES
  args,             \* the parsed command line: check, fix, path, extensions
  fs,               \* the files: path -> content
  fault,            \* the file, if any, that cannot be opened for read or write
  pc,               \* where main() is
  run,              \* the number of this run
  queue,            \* the files format_file is still to be called on
  files_processed,  \* self.files_processed
  issues_found,     \* self.issues_found
  files_fixed,      \* self.files_fixed
  success,          \* main's success / format_directory's all_success
  exit_code,        \* the argument of sys.exit, -1 while the process runs
  pending,          \* the write format_file is in the middle of
  log,              \* history: one entry per format_file call of this run
  prevlog,          \* history: the log of the run before
  fs0               \* history: the files as this run found them

vars == <<args, fs, fault, pc, run, queue, files_processed, issues_found,
          files_fixed, success, exit_code, pending, log, prevlog, fs0>>

NoFault == [file |-> "", op |-> "none"]
NoPending == [file |-> "", content |-> <<>>, found |-> <<>>]

\* list(self.language_config.keys())
DefaultExtensions ==
  <<".js", ".jsx", ".ts", ".tsx", ".py", ".go", ".java", ".rs", ".rb", ".sh",
    ".yml", ".yaml", ".json", ".md">>

exclude_dirs == {".git", "node_modules", "vendor", ".venv", "dist", "build", "__pycache__"}

\* path.is_file(), directory.exists()
IsFile(files, path) == path \in DOMAIN files
Exists(files, path) ==
  IsFile(files, path) \/ \E f \in DOMAIN files : StartsWith(f, path \o "/")

\* the elements of a set of paths as a sequence
RECURSIVE SeqOf(_)
SeqOf(S) ==
  IF S = {} THEN <<>>
  ELSE LET m == CHOOSE a \in S : \A b \in S : ~PathLess(b, a)
       IN <<m>> \o SeqOf(S \ {m})

\* directory.rglob('*' + ext): the files below directory whose name ends with ext
Rglob(files, directory, ext) ==
  SeqOf({f \in DOMAIN files :
           StartsWith(f, directory \o "/") /\ EndsWith(Name(f), ext)})

\* the files format_directory calls format_file on, in that order
Discover(files, directory, extensions) ==
  LET exts == IF Len(extensions) = 0 THEN DefaultExtensions ELSE extensions
      found[i \in 0..Len(exts)] ==
        IF i = 0 THEN <<>> ELSE found[i - 1] \o Rglob(files, directory, exts[i])
      kept == SelectSeq(found[Len(exts)],
                        LAMBDA f : ~ \E ex \in exclude_dirs : StrContains(f, ex))
  IN Sorted(kept)

\* Policy with the test of self.check_only inverted: check mode writes.
PolicyCheckWrites(check_only, fix, issues) ==
  IF Len(issues) = 0 THEN "clean"
  ELSE IF ~check_only THEN "report"
  ELSE "write"

\* Policy with the write-back outside `if issues:': fix mode always writes.
PolicyAlwaysWrites(check_only, fix, issues) ==
  IF fix THEN "write"
  ELSE IF Len(issues) = 0 THEN "clean"
  ELSE "report"

\* Policy with the test of self.fix dropped: every mode but check writes.
PolicyReportWrites(check_only, fix, issues) ==
  IF Len(issues) = 0 THEN "clean"
  ELSE IF check_only THEN "report"
  ELSE "write"

\* what format_file does with the issues its formatter returned
Policy(check_only, fix, issues) ==
  IF Len(issues) = 0 THEN "clean"
  ELSE IF check_only THEN "report"
  ELSE IF fix THEN "write"
  ELSE "report"

\* ExitStatus with check mode exiting on success, as the other modes do.
ExitStatusBySuccess(check, issues, ok) == IF ok THEN 0 ELSE 1

\* ExitStatus with every mode exiting on the issue count, as check mode does.
ExitStatusByIssues(check, issues, ok) == IF issues = 0 THEN 0 ELSE 1

\* the argument of sys.exit at the end of main
ExitStatus(check, issues, ok) ==
  IF check THEN (IF issues = 0 THEN 0 ELSE 1) ELSE (IF ok THEN 0 ELSE 1)

Entry(file, outcome, found, ok, returned) ==
  [file |-> file, outcome |-> outcome, found |-> found, ok |-> ok,
   returned |-> returned]

ErrorIssue == Issue("error", 0, 0)

(***************************************************************************)
(* The initial states: a tree of files, a command line, at most one file   *)
(* that cannot be opened.                                                  *)
(***************************************************************************)
Flags == {<<c, f>> : c \in BOOLEAN, f \in BOOLEAN}

\* One file of a registered language with any content of Contents.
RuleTrees ==
  UNION {{("proj/f" \o ext) :> c : c \in Contents(ext)} : ext \in Registered}

\* A project: two sources, a source below build/, a file of no language.
TreeFiles == {"proj/a.py", "proj/b.js", "proj/build/c.py", "proj/notes.txt"}
Pool(path) ==
  CASE path = "proj/a.py" -> {<<"x">>, <<"x", SP>>, <<PyPrint, SP, NL, "x">>}
    [] path = "proj/b.js" -> {<<"x", ";">>, <<"x", ";", NL, JsLog, ";">>}
    [] path = "proj/build/c.py" -> {<<"x", SP>>}
    [] OTHER -> {<<"x">>}
ProjectTrees ==
  {t \in [TreeFiles -> UNION {Pool(p) : p \in TreeFiles}] :
     \A p \in TreeFiles : t[p] \in Pool(p)}

Start(tree, flags, path, extensions, flt) ==
  /\ args = [check |-> flags[1], fix |-> flags[2], path |-> path,
             extensions |-> extensions]
  /\ fs = tree
  /\ fault = flt
  /\ pc = "main"
  /\ run = 1
  /\ queue = <<>>
  /\ files_processed = 0
  /\ issues_found = 0
  /\ files_fixed = 0
  /\ success = TRUE
  /\ exit_code = -1
  /\ pending = NoPending
  /\ log = <<>>
  /\ prevlog = <<>>
  /\ fs0 = tree

InitRules ==
  \E tree \in RuleTrees, flags \in Flags \ {<<TRUE, TRUE>>} :
    \E path \in DOMAIN tree :
      Start(tree, flags, path, <<>>, NoFault)

InitProject ==
  \E tree \in ProjectTrees, flags \in Flags,
     path \in TreeFiles \cup {"proj", "nowhere"},
     extensions \in {<<>>, <<".py">>, <<".js", ".py">>, <<".py", ".js">>},
     flt \in {NoFault, [file |-> "proj/notes.txt", op |-> "read"]}
               \cup {[file |-> f, op |-> o] :
                        f \in {"proj/a.py", "proj/b.js"},
                        o \in {"read", "write"}} :
    Start(tree, flags, path, extensions, flt)

\* Three directories: two sources with one defect each; an invalid and a valid
\* JSON document; sources in and beside directories whose names are, or only
\* hold, an excluded name.
LintTree ==
  ("proj/a.py" :> <<"x", NL, "x", NL, "x", SP, NL>>)
    @@ ("proj/b.js" :> <<"x", ";", NL, JsLog, ";", NL>>)
JsonTree ==
  ("proj/c.json" :> <<JKeyA, JNull, "}">>)
    @@ ("proj/d.json" :> <<"{", JKeyA, JNull, "}">>)
LayoutTree ==
  [p \in {"proj/build/a.py", "proj/src/a.py", "proj/src/builder.py",
          "proj/rebuild/a.py", "distro/a.py"} |-> <<"x">>]
ScenarioTrees == {LintTree, JsonTree, LayoutTree}

InitScenario ==
  \E tree \in ScenarioTrees, flags \in Flags,
     path \in {"proj", "proj/src", "distro"},
     extensions \in {<<>>, <<".py", ".py">>, <<".json", "json">>} :
    Start(tree, flags, path, extensions, NoFault)

Init == InitRules \/ InitProject \/ InitScenario

(***************************************************************************)
(* main() and CodeFormatter.                                               *)
(***************************************************************************)
\* Validate without the test of args.check and args.fix.
ValidateNothing ==
  /\ pc = "main"
  /\ pc' = "dispatch"
  /\ UNCHANGED <<args, fs, fault, run, queue, files_processed, issues_found,
                 files_fixed, success, exit_code, pending, log, prevlog, fs0>>

\* main, to the formatter's construction: both flags end the process with 1
Validate ==
  /\ pc = "main"
  /\ IF args.check /\ args.fix
     THEN pc' = "exited" /\ exit_code' = 1
     ELSE pc' = "dispatch" /\ UNCHANGED exit_code
  /\ UNCHANGED <<args, fs, fault, run, queue, files_processed, issues_found,
                 files_fixed, success, pending, log, prevlog, fs0>>

\* Dispatch with a missing target ending the process at once, without the
\* summary.
DispatchAbortsOnMissing ==
  /\ pc = "dispatch"
  /\ IF IsFile(fs, args.path)
     THEN /\ queue' = <<args.path>> /\ pc' = "processing"
          /\ UNCHANGED <<success, exit_code>>
     ELSE IF ~Exists(fs, args.path)
     THEN queue' = <<>> /\ pc' = "exited" /\ success' = FALSE /\ exit_code' = 1
     ELSE /\ queue' = Discover(fs, args.path, args.extensions)
          /\ pc' = IF Len(queue') = 0 THEN "report" ELSE "processing"
          /\ UNCHANGED <<success, exit_code>>
  /\ UNCHANGED <<args, fs, fault, run, files_processed, issues_found,
                 files_fixed, pending, log, prevlog, fs0>>

\* Dispatch with the exclusion of format_directory applied to a single file
\* too.
DispatchExcludesFile ==
  /\ pc = "dispatch"
  /\ IF IsFile(fs, args.path)
     THEN /\ queue' = SelectSeq(<<args.path>>,
                        LAMBDA f : ~ \E ex \in exclude_dirs : StrContains(f, ex))
          /\ pc' = IF Len(queue') = 0 THEN "report" ELSE "processing"
          /\ UNCHANGED success
     ELSE IF ~Exists(fs, args.path)
     THEN queue' = <<>> /\ pc' = "report" /\ success' = FALSE
     ELSE /\ queue' = Discover(fs, args.path, args.extensions)
          /\ pc' = IF Len(queue') = 0 THEN "report" ELSE "processing"
          /\ UNCHANGED success
  /\ UNCHANGED <<args, fs, fault, run, files_processed, issues_found,
                 files_fixed, exit_code, pending, log, prevlog, fs0>>

\* main: path.is_file() chooses format_file or format_directory, which ends at
\* once when the directory does not exist and else finds the files
Dispatch ==
  /\ pc = "dispatch"
  /\ IF IsFile(fs, args.path)
     THEN queue' = <<args.path>> /\ pc' = "processing" /\ UNCHANGED success
     ELSE IF ~Exists(fs, args.path)
     THEN queue' = <<>> /\ pc' = "report" /\ success' = FALSE
     ELSE /\ queue' = Discover(fs, args.path, args.extensions)
          /\ pc' = IF Len(queue') = 0 THEN "report" ELSE "processing"
          /\ UNCHANGED success
  /\ UNCHANGED <<args, fs, fault, run, files_processed, issues_found,
                 files_fixed, exit_code, pending, log, prevlog, fs0>>

\* Return with the loop of format_directory ending at the first file that
\* could not be read or written.
ReturnAbortsOnError(e) ==
  /\ log' = Append(log, e)
  /\ success' = (success /\ e.ok)
  /\ queue' = IF e.outcome \in {"read_error", "write_error"}
              THEN <<>> ELSE Tail(queue)
  /\ pc' = IF Len(queue') = 0 THEN "report" ELSE "processing"
  /\ pending' = NoPending

\* format_file has returned (ok, returned) for the head of the queue
Return(e) ==
  /\ log' = Append(log, e)
  /\ success' = (success /\ e.ok)
  /\ queue' = Tail(queue)
  /\ pc' = IF Len(queue) = 1 THEN "report" ELSE "processing"
  /\ pending' = NoPending

\* FormatFile with the file counted and opened before the test of its
\* extension.
FormatFileReadsFirst ==
  /\ pc = "processing"
  /\ LET file == Head(queue)
         ext == Lower(Suffix(file))
         r == language_config(ext, fs[file], args.fix)
         todo == Policy(args.check, args.fix, r.issues)
     IN IF fault = [file |-> file, op |-> "read"]
        THEN /\ Return(Entry(file, "read_error", <<>>, FALSE, <<ErrorIssue>>))
             /\ files_processed' = files_processed + 1
             /\ UNCHANGED <<fs, issues_found, files_fixed>>
        ELSE IF ext \notin Registered
        THEN /\ Return(Entry(file, "skipped", <<>>, TRUE, <<>>))
             /\ files_processed' = files_processed + 1
             /\ UNCHANGED <<fs, issues_found, files_fixed>>
        ELSE /\ files_processed' = files_processed + 1
             /\ issues_found' = issues_found + Len(r.issues)
             /\ UNCHANGED files_fixed
             /\ CASE todo = "clean" ->
                       /\ Return(Entry(file, "clean", r.issues, TRUE, <<>>))
                       /\ UNCHANGED fs
                  [] todo = "report" ->
                       /\ Return(Entry(file, "reported", r.issues, FALSE, r.issues))
                       /\ UNCHANGED fs
                  [] todo = "write" /\ fault = [file |-> file, op |-> "write"] ->
                       /\ Return(Entry(file, "write_error", r.issues, FALSE,
                                       <<ErrorIssue>>))
                       /\ UNCHANGED fs
                  [] OTHER ->
                       /\ fs' = [fs EXCEPT ![file] = <<>>]
                       /\ pending' = [file |-> file, content |-> r.content,
                                      found |-> r.issues]
                       /\ pc' = "writing"
                       /\ UNCHANGED <<queue, success, log>>
  /\ UNCHANGED <<args, fault, run, exit_code, prevlog, fs0>>

\* FormatFile with files_fixed incremented before the write-back: a file whose
\* write fails is counted as fixed.
FormatFileCountsFailedWrite ==
  /\ pc = "processing"
  /\ LET file == Head(queue)
         ext == Lower(Suffix(file))
         r == language_config(ext, fs[file], args.fix)
         todo == Policy(args.check, args.fix, r.issues)
     IN IF ext \notin Registered
        THEN /\ Return(Entry(file, "skipped", <<>>, TRUE, <<>>))
             /\ UNCHANGED <<fs, files_processed, issues_found, files_fixed>>
        ELSE IF fault = [file |-> file, op |-> "read"]
        THEN /\ Return(Entry(file, "read_error", <<>>, FALSE, <<ErrorIssue>>))
             /\ files_processed' = files_processed + 1
             /\ UNCHANGED <<fs, issues_found, files_fixed>>
        ELSE /\ files_processed' = files_processed + 1
             /\ issues_found' = issues_found + Len(r.issues)
             /\ CASE todo = "clean" ->
                       /\ Return(Entry(file, "clean", r.issues, TRUE, <<>>))
                       /\ UNCHANGED <<fs, files_fixed>>
                  [] todo = "report" ->
                       /\ Return(Entry(file, "reported", r.issues, FALSE, r.issues))
                       /\ UNCHANGED <<fs, files_fixed>>
                  [] todo = "write" /\ fault = [file |-> file, op |-> "write"] ->
                       /\ Return(Entry(file, "write_error", r.issues, FALSE,
                                       <<ErrorIssue>>))
                       /\ files_fixed' = files_fixed + 1
                       /\ UNCHANGED fs
                  [] OTHER ->
                       /\ fs' = [fs EXCEPT ![file] = <<>>]
                       /\ pending' = [file |-> file, content |-> r.content,
                                      found |-> r.issues]
                       /\ pc' = "writing"
                       /\ UNCHANGED <<queue, success, log, files_fixed>>
  /\ UNCHANGED <<args, fault, run, exit_code, prevlog, fs0>>

\* format_file, to its return or to the open() of the write-back
FormatFile ==
  /\ pc = "processing"
  /\ LET file == Head(queue)
         ext == Lower(Suffix(file))
         r == language_config(ext, fs[file], args.fix)
         todo == Policy(args.check, args.fix, r.issues)
     IN IF ext \notin Registered
        THEN /\ Return(Entry(file, "skipped", <<>>, TRUE, <<>>))
             /\ UNCHANGED <<fs, files_processed, issues_found, files_fixed>>
        ELSE IF fault = [file |-> file, op |-> "read"]
        THEN /\ Return(Entry(file, "read_error", <<>>, FALSE, <<ErrorIssue>>))
             /\ files_processed' = files_processed + 1
             /\ UNCHANGED <<fs, issues_found, files_fixed>>
        ELSE /\ files_processed' = files_processed + 1
             /\ issues_found' = issues_found + Len(r.issues)
             /\ UNCHANGED files_fixed
             /\ CASE todo = "clean" ->
                       /\ Return(Entry(file, "clean", r.issues, TRUE, <<>>))
                       /\ UNCHANGED fs
                  [] todo = "report" ->
                       /\ Return(Entry(file, "reported", r.issues, FALSE, r.issues))
                       /\ UNCHANGED fs
                  [] todo = "write" /\ fault = [file |-> file, op |-> "write"] ->
                       /\ Return(Entry(file, "write_error", r.issues, FALSE,
                                       <<ErrorIssue>>))
                       /\ UNCHANGED fs
                  [] OTHER ->
                       \* open(file_path, 'w') has emptied the file
                       /\ fs' = [fs EXCEPT ![file] = <<>>]
                       /\ pending' = [file |-> file, content |-> r.content,
                                      found |-> r.issues]
                       /\ pc' = "writing"
                       /\ UNCHANGED <<queue, success, log>>
  /\ UNCHANGED <<args, fault, run, exit_code, prevlog, fs0>>

\* FinishWrite taking the issues the write-back resolved off issues_found.
FinishWriteUncounts ==
  /\ pc = "writing"
  /\ fs' = [fs EXCEPT ![pending.file] = pending.content]
  /\ files_fixed' = files_fixed + 1
  /\ issues_found' =
       issues_found
         - Cardinality({i \in DOMAIN pending.found :
                          pending.found[i].kind
                            \in FixableKinds(Lower(Suffix(pending.file)))})
  /\ Return(Entry(pending.file, "fixed", pending.found, TRUE, <<>>))
  /\ UNCHANGED <<args, fault, run, files_processed, exit_code, prevlog, fs0>>

\* FinishWrite taking the issues of the file written off issues_found.
FinishWriteSubtracts ==
  /\ pc = "writing"
  /\ fs' = [fs EXCEPT ![pending.file] = pending.content]
  /\ files_fixed' = files_fixed + 1
  /\ issues_found' = issues_found - Len(pending.found)
  /\ Return(Entry(pending.file, "fixed", pending.found, TRUE, <<>>))
  /\ UNCHANGED <<args, fault, run, files_processed, exit_code, prevlog, fs0>>

\* format_file: f.write(formatted_content), files_fixed += 1, return True, []
FinishWrite ==
  /\ pc = "writing"
  /\ fs' = [fs EXCEPT ![pending.file] = pending.content]
  /\ files_fixed' = files_fixed + 1
  /\ Return(Entry(pending.file, "fixed", pending.found, TRUE, <<>>))
  /\ UNCHANGED <<args, fault, run, files_processed, issues_found, exit_code,
                 prevlog, fs0>>

\* main: the summary and sys.exit
Report ==
  /\ pc = "report"
  /\ exit_code' = ExitStatus(args.check, issues_found, success)
  /\ pc' = "exited"
  /\ UNCHANGED <<args, fs, fault, run, queue, files_processed, issues_found,
                 files_fixed, success, pending, log, prevlog, fs0>>

\* the same command line is run again on the files as the last run left them
Rerun ==
  /\ pc = "exited"
  /\ run < MaxRuns
  /\ run' = run + 1
  /\ pc' = "main"
  /\ queue' = <<>>
  /\ files_processed' = 0
  /\ issues_found' = 0
  /\ files_fixed' = 0
  /\ success' = TRUE
  /\ exit_code' = -1
  /\ pending' = NoPending
  /\ prevlog' = log
  /\ log' = <<>>
  /\ fs0' = fs
  /\ UNCHANGED <<args, fs, fault>>

Next == Validate \/ Dispatch \/ FormatFile \/ FinishWrite \/ Report \/ Rerun

Spec == Init /\ [][Next]_vars

(***************************************************************************)
(* Properties.                                                             *)
(***************************************************************************)
CheckMode == args.check /\ ~args.fix
FixMode == args.fix /\ ~args.check
Exited == pc = "exited"

Entries == {log[i] : i \in DOMAIN log}
PrevEntries == {prevlog[i] : i \in DOMAIN prevlog}
Kinds(issues) == {issues[i].kind : i \in DOMAIN issues}
ExtOf(file) == Lower(Suffix(file))
Fixable(file, issue) == issue.kind \in FixableKinds(ExtOf(file))
IoError(e) == e.outcome \in {"read_error", "write_error"}

\* C1: in check mode no file is ever written: at every moment of the run every
\* file holds what it held before the run, whatever issues were found.
C1_CheckNeverWrites ==
  CheckMode =>
    /\ fs = fs0
    /\ pc # "writing"
    /\ \A e \in Entries : e.outcome \notin {"fixed", "write_error"}

\* a check-mode run that has ended and found an issue a fixer exists for
C1_Witness ==
  /\ CheckMode /\ Exited
  /\ \E e \in Entries : \E i \in DOMAIN e.found : Fixable(e.file, e.found[i])

\* C2: with both --check and --fix the process ends with exit code 1 and has
\* done nothing: no discovery, no counter changed, no file read or written.
C2_BothFlagsAbort ==
  (args.check /\ args.fix) =>
    /\ pc \in {"main", "exited"}
    /\ Exited => exit_code = 1
    /\ queue = <<>> /\ log = <<>>
    /\ files_processed = 0 /\ issues_found = 0 /\ files_fixed = 0
    /\ fs = fs0

C2_Witness == args.check /\ args.fix /\ Exited /\ exit_code = 1

\* C3: a file is opened for writing only when its issue list is not empty, in
\* every mode.
C3_NoIssuesNoWrite ==
  /\ pc = "writing" => Len(pending.found) > 0
  /\ \A e \in Entries :
       Len(e.found) = 0 => e.outcome \in {"clean", "skipped", "read_error"}
  /\ \A e \in Entries :
       e.outcome \in {"fixed", "write_error"} => Len(e.found) > 0

\* a fix-mode run that has processed a file without issues
C3_Witness ==
  FixMode /\ Exited /\ \E e \in Entries : e.outcome = "clean" /\ e.found = <<>>

\* C4: a second fix-mode run leaves every file as the first run left it and
\* reports no kind of issue the first run did not report for the file.
C4_FixIdempotent ==
  (FixMode /\ run = 2 /\ Exited /\ fault = NoFault) =>
    /\ fs = fs0
    /\ \A e \in Entries : \A p \in PrevEntries :
         e.file = p.file => Kinds(e.found) \subseteq Kinds(p.found)

\* C5: a file written back by a fix-mode run, scanned again, reports no issue
\* of a rule whose fixer the first run applied to it.
C5_FixedRulesSilent ==
  (FixMode /\ run = 2 /\ fault = NoFault) =>
    \A e \in Entries : \A p \in PrevEntries :
      (e.file = p.file /\ p.outcome = "fixed") =>
        Kinds(e.found) \cap Kinds(p.found) \cap FixableKinds(ExtOf(e.file)) = {}

\* C6: in fix mode a file is written back and counted in files_fixed only if
\* at least one of its issues is fixable.
C6_WriteOnlyIfFixable ==
  /\ \A e \in Entries :
       e.outcome = "fixed" => \E i \in DOMAIN e.found : Fixable(e.file, e.found[i])
  /\ pc = "writing" =>
       \E i \in DOMAIN pending.found : Fixable(pending.file, pending.found[i])

\* C7: after a write-back format_file returns exactly the issues no fixer
\* resolved.
C7_UnresolvedReported ==
  \A e \in Entries :
    e.outcome = "fixed" =>
      e.returned = SelectSeq(e.found, LAMBDA i : ~Fixable(e.file, i))

\* the issues the formatters returned over the run
RECURSIVE TotalFound(_)
TotalFound(l) == IF Len(l) = 0 THEN 0 ELSE Len(Head(l).found) + TotalFound(Tail(l))

\* C8: in check mode the exit status is 0 if no issue was found over the
\* processed files and 1 otherwise.
C8_CheckExit ==
  (CheckMode /\ Exited) =>
    /\ exit_code \in {0, 1}
    /\ exit_code = 0 <=> TotalFound(log) = 0

\* a check-mode run over two files that ends with 1
C8_Witness ==
  CheckMode /\ Exited /\ exit_code = 1 /\ files_processed = 2

\* C9: a run in which a file could not be read or written ends with an exit
\* status that is neither 0 nor 1.
C9_IoErrorExit ==
  (Exited /\ \E e \in Entries : IoError(e)) => exit_code \notin {0, 1}

\* every processed file had no issues or was written back without error
AllCleanOrFixed ==
  \A e \in Entries : e.outcome # "skipped" => e.outcome \in {"clean", "fixed"}

\* C10 as stated: in fix mode the exit status is 0 exactly when every
\* processed file had no issues or was written back without error.
C10_FixExit ==
  (FixMode /\ Exited) => (exit_code = 0 <=> AllCleanOrFixed)

\* C10, amended: the same when the target path exists.
C10_FixExitTargetExists ==
  (FixMode /\ Exited /\ Exists(fs, args.path)) =>
    (exit_code = 0 <=> AllCleanOrFixed)

\* a fix-mode run that found issues, wrote the files back and ends with 0
C10_Witness ==
  /\ FixMode /\ Exited /\ exit_code = 0 /\ issues_found > 0
  /\ \E e \in Entries : e.outcome = "fixed"

ReportOnly == ~args.check /\ ~args.fix

\* C11: in report-only mode (neither flag) the exit status is 0 whatever the
\* number of issues found, when the target exists and every file could be read.
C11_ReportOnlyExitZero ==
  (ReportOnly /\ Exited /\ Exists(fs, args.path)
     /\ \A e \in Entries : ~IoError(e)) => exit_code = 0

DirectoryTarget == ~IsFile(fs0, args.path) /\ Exists(fs0, args.path)
Discovered ==
  \/ pc \in {"processing", "writing", "report"}
  \/ Exited /\ ~(args.check /\ args.fix)
LogFiles == [i \in DOMAIN log |-> log[i].file]

\* the i-th result is the first one, the only one, of its file in this run
First(i) == \A j \in 1..(i - 1) : log[j].file # log[i].file
Once(i) == \A j \in DOMAIN log : log[j].file = log[i].file => i = j

\* C12: a file that cannot be read or written does not end the session: every
\* discovered file after it is still processed (the files done and the files
\* still to do are at every moment the discovered list, and at the end all are
\* done), and the failure is a failed result of that file and of no other.
C12_FailureDoesNotAbort ==
  (DirectoryTarget /\ Discovered) =>
    /\ LogFiles \o queue = Discover(fs0, args.path, args.extensions)
    /\ Exited => queue = <<>>
    /\ \A i \in DOMAIN log :
         IoError(log[i]) =>
           /\ log[i].file = fault.file
           /\ ~log[i].ok /\ log[i].returned = <<ErrorIssue>>
    /\ \A i \in DOMAIN log :
         (log[i].file # fault.file /\ log[i].outcome # "skipped" /\ First(i)) =>
           log[i].found =
             language_config(ExtOf(log[i].file), fs0[log[i].file], args.fix).issues

\* a run over a directory in which a file failed and a later file was done
C12_Witness ==
  /\ DirectoryTarget /\ Exited
  /\ \E i, j \in DOMAIN log :
       /\ i < j
       /\ IoError(log[i])
       /\ log[j].outcome \in {"clean", "reported", "fixed"}

\* C13: when the target path does not exist the run reads and writes no file,
\* leaves every counter at 0 and ends with a nonzero exit status, in every mode.
C13_MissingTargetFails ==
  (~Exists(fs0, args.path) /\ Exited) =>
    /\ log = <<>> /\ fs = fs0
    /\ files_processed = 0 /\ issues_found = 0 /\ files_fixed = 0
    /\ exit_code # 0

\* the directories a path goes through
DirParts(path) == {Parts(path)[i] : i \in 1..(Len(Parts(path)) - 1)}
\* the allowlist of the run
Allowlist ==
  LET exts == IF Len(args.extensions) = 0 THEN DefaultExtensions
              ELSE args.extensions
  IN {exts[i] : i \in DOMAIN exts}
\* the files below the target whose extension is in the allowlist
Candidates ==
  {f \in DOMAIN fs0 : StartsWith(f, args.path \o "/") /\ Suffix(f) \in Allowlist}
Listed == {(LogFiles \o queue)[i] : i \in DOMAIN (LogFiles \o queue)}

\* C14: discovery leaves a file out exactly when one of the directories on its
\* path is an excluded directory name: a file below build/ is never processed,
\* src/builder.py and rebuild/a.py are.
C14_ExcludedByComponent ==
  (DirectoryTarget /\ Discovered) =>
    \A f \in Candidates : f \in Listed <=> DirParts(f) \cap exclude_dirs = {}

\* C15: when the target is a single file with a registered extension, that
\* file and no other is processed, also when its path lies inside an excluded
\* directory.
C15_SingleFileTarget ==
  (IsFile(fs0, args.path) /\ ExtOf(args.path) \in Registered /\ Discovered) =>
    /\ LogFiles \o queue = <<args.path>>
    /\ \A f \in DOMAIN fs : f # args.path => fs[f] = fs0[f]
    /\ Exited =>
         /\ files_processed = 1
         /\ log[1].outcome \notin {"skipped"}
         /\ (fault.file # args.path) =>
              log[1].found =
                language_config(ExtOf(args.path), fs0[args.path], args.fix).issues

\* a run on a single file below build/ that has processed it and found its issue
C15_Witness ==
  /\ Exited /\ IsFile(fs0, args.path)
  /\ DirParts(args.path) \cap exclude_dirs # {}
  /\ files_processed = 1
  /\ Len(log) = 1 /\ log[1].file = args.path /\ Len(log[1].found) > 0

\* C16: format_file on a file with an unregistered extension returns success
\* and no issue, does not open the file (a file that cannot be read is skipped
\* like any other), logs no error and leaves files_processed, issues_found,
\* files_fixed and the files as they are.
C16_SkipSilently ==
  [][(pc = "processing" /\ ExtOf(Head(queue)) \notin Registered) =>
       /\ log' = Append(log, Entry(Head(queue), "skipped", <<>>, TRUE, <<>>))
       /\ success' = success
       /\ UNCHANGED <<files_processed, issues_found, files_fixed, fs>>]_vars

\* a run on a file of no registered language, which cannot be read, has ended
C16_Witness ==
  /\ Exited /\ exit_code = 0 /\ files_processed = 0
  /\ fault = [file |-> args.path, op |-> "read"]
  /\ \E e \in Entries : e.file = args.path /\ e.outcome = "skipped"

\* the files of the run in the order they are processed
Order == LogFiles \o queue
Reverse(s) == [i \in DOMAIN s |-> s[Len(s) + 1 - i]]

\* C17: for a directory target the files are processed in sorted path order
\* (paths compared component by component), every processed file has an
\* extension of the allowlist, the order is the discovered list from before
\* the first file to the last, and the allowlist in reverse order gives the
\* same list.
C17_SortedAllowlisted ==
  (DirectoryTarget /\ Discovered) =>
    /\ \A i, j \in DOMAIN Order : i < j => ~PathLess(Order[j], Order[i])
    /\ \A i \in DOMAIN Order : Suffix(Order[i]) \in Allowlist
    /\ Order = Discover(fs0, args.path, args.extensions)
    /\ Order = Discover(fs0, args.path, Reverse(args.extensions))

\* a run with the allowlist .js, .py that did a.py before b.js
C17_Witness ==
  /\ DirectoryTarget /\ Exited
  /\ args.extensions = <<".js", ".py">>
  /\ LogFiles = <<"proj/a.py", "proj/b.js">>

\* a first run on the directory of a.py and b.js
LintRun ==
  fs0 = LintTree /\ args.path = "proj" /\ args.extensions = <<>> /\ Exited
\* what a scan of the files as they are now finds
Remaining(file) == language_config(ExtOf(file), fs[file], FALSE).issues

\* C18: on the directory of a.py (trailing whitespace on line 3, nothing else)
\* and b.js (one console.log call, nothing else) a check-mode run finds 2
\* issues in 2 processed files and exits 1; a fix-mode run writes both files
\* back changed, returns no issue for either, leaves nothing for a new scan to
\* find, counts 2 files fixed and exits 0.
C18_LintScenario ==
  /\ (LintRun /\ CheckMode) =>
       /\ files_processed = 2 /\ issues_found = 2 /\ exit_code = 1
       /\ LogFiles = <<"proj/a.py", "proj/b.js">>
       /\ log[1].returned = <<Issue("trailing_ws", 3, 0)>>
       /\ [i \in DOMAIN log[2].returned |-> log[2].returned[i].kind]
            = <<"console_log">>
       /\ fs = fs0
  /\ (LintRun /\ FixMode) =>
       /\ files_processed = 2 /\ files_fixed = 2 /\ exit_code = 0
       /\ \A i \in DOMAIN log :
            /\ log[i].outcome = "fixed" /\ log[i].returned = <<>>
            /\ fs[log[i].file] # fs0[log[i].file]
            /\ Remaining(log[i].file) = <<>>
       /\ LogFiles = <<"proj/a.py", "proj/b.js">>

\* the fix-mode run on the directory of a.py and b.js has ended
C18_Witness == LintRun /\ FixMode /\ files_fixed = 2

\* a first fix-mode run on the directory of c.json and d.json
JsonRun ==
  fs0 = JsonTree /\ args.path = "proj" /\ args.extensions = <<>> /\ FixMode

\* C19: on the directory of c.json (not JSON) and d.json (JSON, not in the
\* canonical form) a fix-mode run never opens c.json for writing, does not
\* count it in files_fixed and returns its issue; it writes d.json back in
\* canonical form, counts both files in files_processed and exits nonzero.
C19_JsonScenario ==
  JsonRun =>
    /\ fs["proj/c.json"] = fs0["proj/c.json"]
    /\ pending.file # "proj/c.json"
    /\ \A e \in Entries :
         e.file = "proj/c.json" =>
           /\ e.outcome = "reported"
           /\ Kinds(e.returned) = {"invalid_json"}
    /\ Exited =>
         /\ LogFiles = <<"proj/c.json", "proj/d.json">>
         /\ files_processed = 2
         /\ files_fixed = 1
         /\ log[2].outcome = "fixed"
         /\ Remaining("proj/d.json") = <<>>
         /\ exit_code # 0

\* C20: at every moment of a fix-mode run every file holds either what it held
\* when the run began or what its formatter makes of that, whole: never an
\* empty or partly written file.
C20_AtomicWriteBack ==
  FixMode =>
    \A f \in DOMAIN fs :
      \/ fs[f] = fs0[f]
      \/ fs[f] = language_config(ExtOf(f), fs0[f], TRUE).content

\* the steps of main in their order: validation, discovery, the files one by
\* one, the summary, the exit
StateOrder ==
  {<<"main", "dispatch">>, <<"main", "exited">>,
   <<"dispatch", "processing">>, <<"dispatch", "report">>,
   <<"processing", "processing">>, <<"processing", "writing">>,
   <<"processing", "report">>,
   <<"writing", "processing">>, <<"writing", "report">>,
   <<"report", "exited">>, <<"exited", "main">>}

\* C21: a run goes through validation, discovery, processing, the summary and
\* the exit in this order; it ends without the summary only when validation
\* fails (both flags).  A run that passed validation cannot stop short of the
\* summary: while files are queued every step takes one off the queue or
\* begins its write-back, nothing blocks a step, and the run ends with the
\* exit status the summary step computes, also when the target is missing or
\* files failed.
C21_SummaryAlways ==
  /\ [][/\ (<<pc, pc'>>) \in StateOrder
        /\ (pc = "main" /\ pc' = "exited") => (args.check /\ args.fix)
        /\ (pc = "main" /\ pc' = "dispatch") => ~(args.check /\ args.fix)
        /\ (pc = "report") =>
             exit_code' = ExitStatus(args.check, issues_found, success)
        /\ (pc = "processing") =>
             \/ pc' = "writing" /\ queue' = queue
             \/ pc' # "writing" /\ queue' = Tail(queue)
        /\ (pc = "writing") => queue' = Tail(queue)
        /\ (pc' = "report") <=> (pc # "report" /\ queue' = <<>> /\ pc # "exited"
                                   /\ pc # "main")]_vars
  /\ [](pc \in {"processing", "writing"} => queue # <<>>)
  /\ [](pc = "writing" => pending.file = Head(queue) /\ IsFile(fs, pending.file))
  /\ []((Exited /\ ~(args.check /\ args.fix)) => exit_code \in {0, 1})

\* a run on a missing target has ended after its summary
C21_Witness ==
  /\ Exited /\ ~(args.check /\ args.fix)
  /\ ~Exists(fs0, args.path)
  /\ exit_code \in {0, 1}

\* what a run that does not fix records for a file, whatever its flags
Scanned(file) ==
  LET found == language_config(ExtOf(file), fs0[file], FALSE).issues
  IN IF ExtOf(file) \notin Registered
     THEN Entry(file, "skipped", <<>>, TRUE, <<>>)
     ELSE IF fault = [file |-> file, op |-> "read"]
     THEN Entry(file, "read_error", <<>>, FALSE, <<ErrorIssue>>)
     ELSE IF Len(found) = 0 THEN Entry(file, "clean", <<>>, TRUE, <<>>)
     ELSE Entry(file, "reported", found, FALSE, found)

\* C22: in check mode and in report-only mode files_fixed stays 0 at every
\* moment, also when fixable issues are found; the two modes record the same
\* issues for a file (what Scanned gives, which does not look at the flags)
\* and leave every file as it was.
C22_NoFixWithoutFixFlag ==
  (CheckMode \/ ReportOnly) =>
    /\ files_fixed = 0
    /\ fs = fs0 /\ pc # "writing"
    /\ \A i \in DOMAIN log : log[i] = Scanned(log[i].file)
    /\ issues_found = TotalFound(log)

\* a report-only run that has ended and found an issue a fixer exists for
C22_Witness ==
  /\ ReportOnly /\ Exited /\ files_fixed = 0
  /\ \E e \in Entries : \E i \in DOMAIN e.found : Fixable(e.file, e.found[i])

\* C23: every file counted in files_processed has an extension of the
\* allowlist, for a directory target and for a single-file target.
C23_AllowlistRestricts ==
  \A e \in Entries : e.outcome # "skipped" => Suffix(e.file) \in Allowlist

\* C24: no step of a session (format_file returning, failing to read, failing
\* to write, writing back, the summary) lowers files_processed, issues_found
\* or files_fixed; only a new process starts from 0 again.
C24_CountersMonotone ==
  [][(pc # "exited") =>
       /\ files_processed' \in {files_processed, files_processed + 1}
       /\ issues_found' >= issues_found
       /\ files_fixed' \in {files_fixed, files_fixed + 1}]_vars

\* a session in which a file failed after another had been counted
C24_Witness ==
  /\ Exited /\ files_processed = 2 /\ issues_found > 0
  /\ IoError(log[2])

\* the formatter of a file's language on the content the run found, fixing
Fixed(file) == language_config(ExtOf(file), fs0[file], TRUE)

\* C25: a formatter that returns a content other than the one it was given
\* returns with it an issue of a rule that has a fixer (no silent fix); a
\* formatter that is not fixing returns the content it was given; and a file
\* whose content the write-back of a run changed had such an issue recorded.
C25_NoSilentFix ==
  /\ \A f \in DOMAIN fs0 :
       ExtOf(f) \in Registered =>
         /\ Fixed(f).content # fs0[f] =>
              Kinds(Fixed(f).issues) \cap FixableKinds(ExtOf(f)) # {}
         /\ language_config(ExtOf(f), fs0[f], FALSE).content = fs0[f]
  /\ \A i \in DOMAIN log :
       (Exited /\ Once(i) /\ log[i].outcome = "fixed"
          /\ fs[log[i].file] # fs0[log[i].file]) =>
         Kinds(log[i].found) \cap FixableKinds(ExtOf(log[i].file)) # {}

\* a fix-mode run wrote a shell script back with the shebang line it lacked
C25_Witness ==
  /\ FixMode /\ Exited
  /\ \E e \in Entries :
       /\ e.outcome = "fixed" /\ ExtOf(e.file) = ".sh"
       /\ fs[e.file] # fs0[e.file]
       /\ "shebang" \in Kinds(e.found)

\* the line-length ceiling of a rule set
MaxLine(ext) == IF ext = ".py" THEN PyMaxLine ELSE JsMaxLine

\* C26: in fix mode a formatter with whitespace fixers (Python, JavaScript,
\* TypeScript) reports a line as longer than the ceiling only if the line is
\* longer than the ceiling in the content it returns, after its fixers.
C26_LengthAfterNormalization ==
  \A f \in DOMAIN fs0 :
    ExtOf(f) \in {".py", ".js", ".jsx", ".ts", ".tsx"} =>
      LET lines == Split(Fixed(f).content)
          found == Fixed(f).issues
      IN \A i \in DOMAIN found :
           found[i].kind = "line_length" =>
             /\ found[i].line \in DOMAIN lines
             /\ StrLen(lines[found[i].line]) > MaxLine(ExtOf(f))

\* C27: for every registered language and every content the formatter finds
\* the same issues when it fixes as when it does not.
C27_DetectionSameInFixMode ==
  \A f \in DOMAIN fs0 :
    ExtOf(f) \in Registered =>
      Fixed(f).issues = language_config(ExtOf(f), fs0[f], FALSE).issues

\* the files of a sequence, each once
Distinct(files) == {files[i] : i \in DOMAIN files}

\* C28: in a directory session files_processed never passes the number of
\* distinct discovered files and no file is processed or written twice, also
\* with an allowlist whose entries repeat or overlap.
C28_ProcessedOnce ==
  (DirectoryTarget /\ Discovered) =>
    /\ files_processed <= Cardinality(Distinct(Order))
    /\ \A i, j \in DOMAIN log : log[i].file = log[j].file => i = j

\* how many results of the run have this outcome
Count(outcomes) == Cardinality({i \in DOMAIN log : log[i].outcome \in outcomes})

\* C29: at every moment files_fixed <= files_processed: files_fixed counts the
\* files written back, all of them counted as processed before; a file whose
\* write failed (or whose write has begun) is counted as processed and not as
\* fixed.
C29_FixedAtMostProcessed ==
  /\ files_fixed <= files_processed
  /\ files_fixed = Count({"fixed"})
  /\ files_processed =
       Count({"clean", "reported", "fixed", "read_error", "write_error"})
         + (IF pc = "writing" THEN 1 ELSE 0)

\* a fix-mode run in which a write failed has ended
C29_Witness ==
  /\ FixMode /\ Exited
  /\ Count({"write_error"}) = 1
  /\ files_fixed < files_processed

\* C30: issues_found is the sum of the issues the formatters returned for the
\* files of the run, in every mode: the issues a write-back resolved stay
\* counted, a file that could not be read adds nothing.
C30_IssuesFoundIsSum ==
  /\ issues_found =
       TotalFound(log) + (IF pc = "writing" THEN Len(pending.found) ELSE 0)
  /\ \A e \in Entries :
       /\ e.outcome \in {"read_error", "skipped"} => e.found = <<>>
       /\ e.outcome \in {"fixed", "reported", "write_error"} => e.found # <<>>

\* a fix-mode run has ended: one file could not be read, another was written
\* back and its issues are counted
C30_Witness ==
  /\ FixMode /\ Exited
  /\ Count({"read_error"}) = 1 /\ Count({"fixed"}) = 1
  /\ issues_found > 0

====
